---- MODULE Spec2Model ----
(***************************************************************************)
(* Model of tools/move_frame.py: the beamer frame finder (parse_frames),   *)
(* the range parser (parse_range) and the delete / move / copy operations  *)
(* on one or two .tex documents.                                           *)
(*                                                                         *)
(* A document is the text of a file.  Python's content.split('\n') maps a  *)
(* text to a NON-EMPTY list of lines and '\n'.join maps a list of lines    *)
(* back to a text, so a text is represented by the non-empty sequence of   *)
(* its lines; the empty text '' is the one-element sequence holding the    *)
(* empty line.  A line is a record [k, id]: k is the class the regular     *)
(* expressions of parse_frames put the line in, id tells lines apart (the  *)
(* code never compares line contents, so distinct ids are the general      *)
(* case).                                                                  *)
(*                                                                         *)
(* One behaviour is one run of the command: Init is the file system and    *)
(* the process before main() starts, the action main is the run up to its  *)
(* exit or, for a cross-file move, up to the write of the destination, and *)
(* move_frames_remove is the rest of a cross-file move (the write of the   *)
(* source).  The state between the two is the file system an interruption  *)
(* of the process would leave behind.                                      *)
(***************************************************************************)
EXTENDS Integers, Sequences, FiniteSets, Bags, TLC

VARIABLES
    fs,       \* file -> text (sequence of lines): the file system
    fs0,      \* history: the file system when the command started
    args,     \* the parsed command line (argparse namespace) of the run
    pc,       \* "start" | "inserted" (cross-file move, destination written) | "done"
    result,   \* how the run ended: "ok", "noop", "listed" or the error
    writes,   \* history: the paths written by write_text, in order
    mem       \* the locals move_frames keeps across its two writes

vars == <<fs, fs0, args, pc, result, writes, mem>>

----------------------------------------------------------------------------
(* Bounds of the model *)

\* longest input document (in lines) when the destination is the fixed one
MaxLines == 4
\* longest source document of the two-document initial states
MaxSrcLines == 1
\* longest destination document of the two-document initial states
MaxDstLines == 1

----------------------------------------------------------------------------
(* Lines and texts *)

\* the classes of lines the regular expressions of parse_frames tell apart;
\* "other" is every line none of them matches (blank lines included)
Kinds == {"begin", "end", "frame", "again", "comment", "other"}

\* re.match(r'\s*\\againframe', line)
IsAgain(line) == line.k = "again"
\* re.match(r'\s*\\begin\{frame\}', line)
IsBegin(line) == line.k = "begin"
\* re.match(r'\s*\\end\{frame\}', line)
IsEnd(line) == line.k = "end"
\* re.match(r'\s*\\frame\{', line)
IsFrame(line) == line.k = "frame"
\* re.match(r'\s*%', line)
IsComment(line) == line.k = "comment"

\* the empty line: ''.split('\n') == ['']
EmptyLine == [k |-> "other", id |-> 0]

\* content.split('\n'): the lines of a text (never the empty list)
Split(content) == content

\* '\n'.join(lines): the text of a list of lines; the empty list gives ''
Join(lines) == IF lines = <<>> THEN <<EmptyLine>> ELSE lines

Min(a, b) == IF a < b THEN a ELSE b
Max(a, b) == IF a > b THEN a ELSE b

\* Python's s[a:b] for 0 <= a, 0 <= b (0-based, b exclusive, clamped to len(s))
Slice(s, a, b) == SubSeq(s, a + 1, Min(b, Len(s)))

\* Python's sum(list_of_lists, [])
RECURSIVE Concat(_)
Concat(ss) == IF ss = <<>> THEN <<>> ELSE Head(ss) \o Concat(Tail(ss))

----------------------------------------------------------------------------
(* parse_range *)

\* A --from token is modelled by its '-'-separated parts; a part is the
\* number int() reads from it, or NotANumber when int() raises ValueError
\* (a non-numeric or empty part).
NotANumber == -1

FormatError == [ok |-> FALSE, positions |-> <<>>]

\* list(range(start, end + 1))
PyRange(start, end) == [i \in 1..(end + 1 - start) |-> start + i - 1]

parse_range(range_str) ==
    IF Len(range_str) > 1                          \* '-' in range_str
    THEN IF Len(range_str) # 2 THEN FormatError
         ELSE IF range_str[1] = NotANumber \/ range_str[2] = NotANumber THEN FormatError
         ELSE IF range_str[1] > range_str[2] THEN FormatError
         ELSE [ok |-> TRUE, positions |-> PyRange(range_str[1], range_str[2])]
    ELSE IF range_str[1] = NotANumber THEN FormatError
         ELSE [ok |-> TRUE, positions |-> <<range_str[1]>>]

----------------------------------------------------------------------------
(* parse_frames *)

\* while start_idx > 0 and re.match(r'\s*%', lines[start_idx - 1]): start_idx -= 1
RECURSIVE CollectComments(_, _)
CollectComments(lines, start_idx) ==
    IF start_idx > 0 /\ IsComment(lines[start_idx])
    THEN CollectComments(lines, start_idx - 1)
    ELSE start_idx

\* faulty variant of FindEnd: a nested \\begin{frame} does not raise the depth
RECURSIVE FindEnd_Flat(_, _, _)
FindEnd_Flat(lines, end_idx, depth) ==
    IF end_idx < Len(lines) /\ depth > 0
    THEN FindEnd_Flat(lines, end_idx + 1,
                      IF IsEnd(lines[end_idx + 1]) THEN depth - 1 ELSE depth)
    ELSE end_idx

\* while end_idx < len(lines) and depth > 0: ... end_idx += 1
RECURSIVE FindEnd(_, _, _)
FindEnd(lines, end_idx, depth) ==
    IF end_idx < Len(lines) /\ depth > 0
    THEN FindEnd(lines, end_idx + 1,
                 IF IsBegin(lines[end_idx + 1]) THEN depth + 1
                 ELSE IF IsEnd(lines[end_idx + 1]) THEN depth - 1
                 ELSE depth)
    ELSE end_idx

\* faulty variant of Frame: the end index is taken one line too far
Frame_EndTooFar(lines, start_idx, end_idx) ==
    [start |-> start_idx, end |-> end_idx + 1,
     text |-> Slice(lines, start_idx, end_idx + 1)]

\* a tuple (start_idx, end_idx, frame_text); frame_text is kept as its lines
Frame(lines, start_idx, end_idx) ==
    [start |-> start_idx, end |-> end_idx, text |-> Slice(lines, start_idx, end_idx)]

\* the while loop of parse_frames, cursor i (0-based), frames found so far
RECURSIVE ScanFrames(_, _, _)
ScanFrames(lines, i, frames) ==
    IF i >= Len(lines) THEN frames
    ELSE LET line == lines[i + 1] IN
         IF IsAgain(line) THEN ScanFrames(lines, i + 1, frames)
         ELSE IF IsBegin(line)
         THEN LET start_idx == CollectComments(lines, i)
                  end_idx == FindEnd(lines, i + 1, 1)
              IN  ScanFrames(lines, end_idx, Append(frames, Frame(lines, start_idx, end_idx)))
         ELSE IF IsFrame(line)
         THEN LET start_idx == CollectComments(lines, i)
              IN  ScanFrames(lines, i + 1, Append(frames, Frame(lines, start_idx, i + 1)))
         ELSE ScanFrames(lines, i + 1, frames)

parse_frames(content) == ScanFrames(Split(content), 0, <<>>)

----------------------------------------------------------------------------
(* Paths and files *)

\* The paths a command line can name, and the file each one leads to.
\* link.tex is a second path to the file of a.tex (a symbolic or hard link,
\* or the same file spelled through another directory): as Path objects
\* the two are unequal.  new.tex and gone.tex name no file.
FileOf == [p \in {"a.tex", "link.tex", "b.tex"} |->
              IF p = "b.tex" THEN "B" ELSE "A"]

Files == {"A", "B"}

\* Path.exists()
Exists(path) == path \in DOMAIN FileOf

\* Path.read_text()
read_text(path) == fs[FileOf[path]]

\* Path.write_text(text)
write_text(path, text) ==
    /\ fs' = [fs EXCEPT ![FileOf[path]] = text]
    /\ writes' = Append(writes, path)

\* sys.exit(1) / parser.error() / return before any write
Exit(how) ==
    /\ pc' = "done"
    /\ result' = how
    /\ UNCHANGED <<fs, writes, mem>>

----------------------------------------------------------------------------
(* list_frames *)

list_frames(input_file) == Exit("listed")

----------------------------------------------------------------------------
(* delete_frames *)

\* faulty variant of OutOfRange: pos <= 1 for pos < 1
OutOfRange_Strict(from_positions, frames) ==
    \E j \in DOMAIN from_positions :
        from_positions[j] <= 1 \/ from_positions[j] > Len(frames)

\* for pos in from_positions: if pos < 1 or pos > len(frames)
OutOfRange(from_positions, frames) ==
    \E j \in DOMAIN from_positions :
        from_positions[j] < 1 \/ from_positions[j] > Len(frames)

\* faulty variant of RemoveFrames: the spans are cut in ascending order, for pos in
\* from_positions, with the indices of the unchanged text
RECURSIVE RemoveFrames_Forward(_, _, _)
RemoveFrames_Forward(lines, frames, from_positions) ==
    IF from_positions = <<>> THEN lines
    ELSE LET pos == from_positions[1]
             start_idx == frames[pos].start
             end_idx == frames[pos].end
         IN  RemoveFrames_Forward(
                 Slice(lines, 0, start_idx) \o Slice(lines, end_idx, Len(lines)),
                 frames, Tail(from_positions))

\* for pos in reversed(from_positions):
\*     start_idx, end_idx, _ = frames[pos - 1]
\*     lines = lines[:start_idx] + lines[end_idx:]
RECURSIVE RemoveFrames(_, _, _)
RemoveFrames(lines, frames, from_positions) ==
    IF from_positions = <<>> THEN lines
    ELSE LET pos == from_positions[Len(from_positions)]
             start_idx == frames[pos].start
             end_idx == frames[pos].end
         IN  RemoveFrames(Slice(lines, 0, start_idx) \o Slice(lines, end_idx, Len(lines)),
                          frames,
                          SubSeq(from_positions, 1, Len(from_positions) - 1))

\* faulty variant of delete_frames: the positions are validated while the spans are
\* cut, so the valid ones are removed and written before the error is reported
delete_frames_WriteFirst(input_file, from_positions) ==
    LET content == read_text(input_file)
        frames == parse_frames(content)
        valid == SelectSeq(from_positions, LAMBDA pos : 1 <= pos /\ pos <= Len(frames))
    IN  IF frames = <<>> THEN Exit("Empty")
        ELSE /\ write_text(input_file, Join(RemoveFrames(Split(content), frames, valid)))
             /\ pc' = "done"
             /\ result' = IF OutOfRange(from_positions, frames) THEN "FromRange" ELSE "ok"
             /\ UNCHANGED mem

delete_frames(input_file, from_positions) ==
    LET content == read_text(input_file)
        frames == parse_frames(content)
    IN  IF frames = <<>> THEN Exit("Empty")
        ELSE IF OutOfRange(from_positions, frames) THEN Exit("FromRange")
        ELSE /\ write_text(input_file,
                           Join(RemoveFrames(Split(content), frames, from_positions)))
             /\ pc' = "done"
             /\ result' = "ok"
             /\ UNCHANGED mem

----------------------------------------------------------------------------
(* move_frames *)

\* nothing kept: the process is not inside a cross-file move
NoMem == [content |-> <<>>, frames |-> <<>>, from_positions |-> <<>>, input_file |-> ""]

\* the for loop ended without break
NoBreak == -1
\* last_remaining = None
None == -1

\* (i + 1) in from_positions
InPositions(n, from_positions) ==
    \E j \in DOMAIN from_positions : from_positions[j] = n

\* for i, (s, e, _) in enumerate(frames): ... if remaining_frame_idx == to_pos:
\*     insert_at = adj_s; break
\* i is 0-based; the value is insert_at, or NoBreak when the loop runs out
RECURSIVE InsertWalk(_, _, _, _, _, _, _)
InsertWalk(frames, from_positions, to_pos, first_frame_start, removed_count, i, remaining_frame_idx) ==
    IF i >= Len(frames) THEN NoBreak
    ELSE IF InPositions(i + 1, from_positions)
    THEN InsertWalk(frames, from_positions, to_pos, first_frame_start, removed_count,
                    i + 1, remaining_frame_idx)
    ELSE LET s == frames[i + 1].start
             adj_s == IF s > first_frame_start THEN s - removed_count ELSE s
         IN  IF remaining_frame_idx + 1 = to_pos THEN adj_s
             ELSE InsertWalk(frames, from_positions, to_pos, first_frame_start,
                             removed_count, i + 1, remaining_frame_idx + 1)

\* for i, (s, e, _) in enumerate(frames): if (i + 1) not in from_positions:
\*     last_remaining = adj_e
RECURSIVE LastRemaining(_, _, _, _, _, _)
LastRemaining(frames, from_positions, first_frame_start, removed_count, i, last_remaining) ==
    IF i >= Len(frames) THEN last_remaining
    ELSE LET e == frames[i + 1].end
             adj_e == IF e > first_frame_start THEN e - removed_count ELSE e
         IN  LastRemaining(frames, from_positions, first_frame_start, removed_count, i + 1,
                           IF InPositions(i + 1, from_positions) THEN last_remaining
                           ELSE adj_e)

\* faulty variant of CombinedLines: the texts are joined in reversed(from_positions) order
CombinedLines_Reversed(frames, from_positions) ==
    Concat([j \in DOMAIN from_positions |->
               frames[from_positions[Len(from_positions) + 1 - j]].text])

\* frame_texts = [frames[pos - 1][2] for pos in from_positions]
\* combined_frame_text.split('\n'): every frame text has a line, so the split of
\* the joined texts is the concatenation of their lines
CombinedLines(frames, from_positions) ==
    Concat([j \in DOMAIN from_positions |-> frames[from_positions[j]].text])

\* faulty variant of CrossInsertAt: a destination without blocks is inserted into at
\* offset 0
CrossInsertAt_Zero(dest_frames, dest_lines, to_pos) ==
    IF to_pos <= Len(dest_frames)
    THEN dest_frames[to_pos].start
    ELSE IF dest_frames # <<>> THEN dest_frames[Len(dest_frames)].end
         ELSE 0

\* the insertion offset of the cross-file branch
CrossInsertAt(dest_frames, dest_lines, to_pos) ==
    IF to_pos <= Len(dest_frames)
    THEN dest_frames[to_pos].start
    ELSE IF dest_frames # <<>> THEN dest_frames[Len(dest_frames)].end
         ELSE Len(dest_lines)

\* faulty variant of InPlaceInsertAt: the offsets of the blocks after the removed span
\* are not shifted by removed_count
InPlaceInsertAt_NoShift(frames, from_positions, to_pos, lines_without_moved) ==
    LET first_frame_start == frames[from_positions[1]].start
        walk == InsertWalk(frames, from_positions, to_pos, first_frame_start, 0, 0, 0)
        last_remaining == LastRemaining(frames, from_positions, first_frame_start,
                                        0, 0, None)
    IN  IF walk # NoBreak THEN walk
        ELSE IF last_remaining # None /\ last_remaining # 0 THEN last_remaining
             ELSE Len(lines_without_moved)

\* the insertion offset of the in-place branch
InPlaceInsertAt(frames, from_positions, to_pos, lines_without_moved) ==
    LET first_frame_start == frames[from_positions[1]].start
        last_frame_end == frames[from_positions[Len(from_positions)]].end
        removed_count == last_frame_end - first_frame_start
        walk == InsertWalk(frames, from_positions, to_pos, first_frame_start,
                           removed_count, 0, 0)
        last_remaining == LastRemaining(frames, from_positions, first_frame_start,
                                        removed_count, 0, None)
    IN  IF walk # NoBreak THEN walk
        ELSE IF last_remaining # None /\ last_remaining # 0 THEN last_remaining
             ELSE Len(lines_without_moved)

\* the in-place branch from "lines = content.split" to final_lines
InPlaceLines(content, frames, from_positions, to_pos) ==
    LET lines == Split(content)
        first_frame_start == frames[from_positions[1]].start
        last_frame_end == frames[from_positions[Len(from_positions)]].end
        lines_without_moved == Slice(lines, 0, first_frame_start)
                                   \o Slice(lines, last_frame_end, Len(lines))
        insert_at == InPlaceInsertAt(frames, from_positions, to_pos, lines_without_moved)
    IN  Slice(lines_without_moved, 0, insert_at)
            \o CombinedLines(frames, from_positions)
            \o Slice(lines_without_moved, insert_at, Len(lines_without_moved))

\* faulty variant of CrossLines: the destination is rewritten without the
\* text of the selected blocks
CrossLines_NoInsert(dest_content, frames, from_positions, to_pos) ==
    LET dest_frames == parse_frames(dest_content)
        dest_lines == Split(dest_content)
        insert_at == CrossInsertAt(dest_frames, dest_lines, to_pos)
    IN  Slice(dest_lines, 0, insert_at) \o Slice(dest_lines, insert_at, Len(dest_lines))

\* the cross-file branch: new_dest_lines
CrossLines(dest_content, frames, from_positions, to_pos) ==
    LET dest_frames == parse_frames(dest_content)
        dest_lines == Split(dest_content)
        insert_at == CrossInsertAt(dest_frames, dest_lines, to_pos)
    IN  Slice(dest_lines, 0, insert_at)
            \o CombinedLines(frames, from_positions)
            \o Slice(dest_lines, insert_at, Len(dest_lines))

\* faulty variant of SamePosition: the test is made for ranges only
SamePosition_RangeOnly(from_positions, to_pos) ==
    Len(from_positions) > 1 /\ from_positions[1] = to_pos

\* len(from_positions) == 1 and from_positions[0] == to_pos
SamePosition(from_positions, to_pos) ==
    Len(from_positions) = 1 /\ from_positions[1] = to_pos

\* output_file is <<>> (None) or <<path>>
move_frames(input_file, from_positions, to_pos, output_file, copy_mode) ==
    LET content == read_text(input_file)
        frames == parse_frames(content)
    IN  IF frames = <<>> THEN Exit("Empty")
        ELSE IF OutOfRange(from_positions, frames) THEN Exit("FromRange")
        ELSE IF output_file # <<>> /\ output_file[1] # input_file
        THEN \* cross-file operation
             IF ~Exists(output_file[1]) THEN Exit("DestMissing")
             ELSE LET dest_content == read_text(output_file[1])
                      dest_frames == parse_frames(dest_content)
                  IN  IF to_pos < 1 \/ to_pos > Len(dest_frames) + 1 THEN Exit("ToRange")
                      ELSE /\ write_text(output_file[1],
                                         Join(CrossLines(dest_content, frames,
                                                         from_positions, to_pos)))
                           /\ IF copy_mode
                              THEN pc' = "done" /\ result' = "ok" /\ UNCHANGED mem
                              ELSE /\ pc' = "inserted"
                                   /\ UNCHANGED result
                                   /\ mem' = [content |-> content, frames |-> frames,
                                              from_positions |-> from_positions,
                                              input_file |-> input_file]
        ELSE \* in-place operation
             IF to_pos < 1 \/ to_pos > Len(frames) THEN Exit("ToRange")
             ELSE IF SamePosition(from_positions, to_pos) THEN Exit("noop")
             ELSE /\ write_text(IF output_file # <<>> THEN output_file[1] ELSE input_file,
                                Join(InPlaceLines(content, frames, from_positions, to_pos)))
                  /\ pc' = "done"
                  /\ result' = "ok"
                  /\ UNCHANGED mem

\* the rest of a cross-file move: "Remove from source if move mode"
move_frames_remove ==
    /\ pc = "inserted"
    /\ write_text(mem.input_file,
                  Join(RemoveFrames(Split(mem.content), mem.frames, mem.from_positions)))
    /\ pc' = "done"
    /\ result' = "ok"
    /\ mem' = NoMem
    /\ UNCHANGED <<fs0, args>>

----------------------------------------------------------------------------
(* main *)

\* the argparse namespace: an option that was not given (None) is <<>>
Cmd(input_file, from_pos, to_pos, output, copy, move, delete, list) ==
    [input_file |-> input_file, from_pos |-> from_pos, to_pos |-> to_pos,
     output |-> output, copy |-> copy, move |-> move, delete |-> delete, list |-> list]

\* before parse_args
NoArgs == Cmd("", <<>>, <<>>, <<>>, FALSE, FALSE, FALSE, FALSE)

main(a) ==
    /\ args' = a
    /\ UNCHANGED fs0
    /\ IF ~Exists(a.input_file) THEN Exit("InputMissing")
       ELSE IF a.list THEN list_frames(a.input_file)
       ELSE IF a.from_pos = <<>> THEN Exit("FromMissing")
       ELSE IF a.delete
       THEN LET r == parse_range(a.from_pos[1])
            IN  IF ~r.ok THEN Exit("Format")
                ELSE delete_frames(a.input_file, r.positions)
       ELSE IF a.to_pos = <<>> THEN Exit("ToMissing")
       ELSE LET r == parse_range(a.from_pos[1])
                copy_mode == a.copy /\ ~a.move
            IN  IF ~r.ok THEN Exit("Format")
                ELSE move_frames(a.input_file, r.positions, a.to_pos[1], a.output, copy_mode)

----------------------------------------------------------------------------
(* The inputs: initial file systems and command lines *)

\* the text whose lines have the classes ks; its line ids start after base
Text(ks, base) == [i \in 1..Len(ks) |-> [k |-> ks[i], id |-> base + i]]

\* every sequence of 1..n line classes
KindSeqs(n) == UNION {[1..m -> Kinds] : m \in 1..n}

\* the destination document of the one-document initial states: a block with
\* an absorbed comment, other content, and a begin/end block
FixedDest == Text(<<"comment", "frame", "other", "begin", "end">>, 20)

InitialFileSystems ==
    {[f \in Files |-> IF f = "A" THEN Text(ka, 10) ELSE FixedDest] :
        ka \in KindSeqs(MaxLines)}
    \cup
    {[f \in Files |-> IF f = "A" THEN Text(kk[1], 10) ELSE Text(kk[2], 20)] :
        kk \in KindSeqs(MaxSrcLines) \X KindSeqs(MaxDstLines)}

\* --from tokens that parse to positions inside 1..n: "p" and "p-q", p < q
ValidTokens(n) ==
    {<<p>> : p \in 1..n} \cup {t \in (1..n) \X (1..n) : t[1] < t[2]}

\* the other tokens: "abc", "1-x", "x-1", "1-2-3", "0", "n+1", "0-1",
\* "1-(n+1)", "2-1", "(n+1)-n", "1-1"
OddTokens(n) ==
    {<<NotANumber>>, <<1, NotANumber>>, <<NotANumber, 1>>, <<1, 2, 3>>,
     <<0>>, <<n + 1>>, <<0, 1>>, <<1, n + 1>>, <<2, 1>>, <<n + 1, n>>, <<1, 1>>}

\* the command lines tried on file system f: every valid selection with every
\* destination position, output path and mode, and each kind of bad input
CommandLines(f) ==
    LET n == Len(parse_frames(f["A"]))
        m == Len(parse_frames(f["B"]))
        tos == {<<t>> : t \in 0..(Max(n, m) + 2)}
        outs == {<<>>, <<"a.tex">>, <<"link.tex">>, <<"b.tex">>}
    IN  {Cmd("a.tex", <<t>>, to, out, copy, FALSE, FALSE, FALSE) :
            t \in ValidTokens(n), to \in tos, out \in outs, copy \in BOOLEAN}
        \cup
        {Cmd("a.tex", <<t>>, <<1>>, out, copy, TRUE, FALSE, FALSE) :
            t \in ValidTokens(n), out \in {<<>>, <<"b.tex">>}, copy \in BOOLEAN}
        \cup
        {Cmd("a.tex", <<t>>, <<1>>, out, FALSE, FALSE, FALSE, FALSE) :
            t \in OddTokens(n), out \in {<<>>, <<"b.tex">>}}
        \cup
        {Cmd("a.tex", <<t>>, <<1>>, <<"new.tex">>, copy, FALSE, FALSE, FALSE) :
            t \in ValidTokens(n), copy \in BOOLEAN}
        \cup
        {Cmd("a.tex", <<t>>, <<>>, <<>>, FALSE, FALSE, delete, FALSE) :
            t \in ValidTokens(n) \cup OddTokens(n), delete \in BOOLEAN}
        \cup
        {Cmd("a.tex", <<>>, <<>>, <<>>, FALSE, FALSE, delete, FALSE) : delete \in BOOLEAN}
        \cup
        {Cmd(input, <<>>, <<>>, <<>>, FALSE, FALSE, FALSE, TRUE) :
            input \in {"a.tex", "gone.tex"}}

----------------------------------------------------------------------------
(* The specification *)

Init ==
    /\ fs \in InitialFileSystems
    /\ fs0 = fs
    /\ args = NoArgs
    /\ pc = "start"
    /\ result = "none"
    /\ writes = <<>>
    /\ mem = NoMem

\* one run of the command, on any of the command lines
Run ==
    /\ pc = "start"
    /\ \E a \in CommandLines(fs) : main(a)

Next ==
    \/ Run
    \/ move_frames_remove

Spec == Init /\ [][Next]_vars

\* the process is not interrupted: a started cross-file move finishes
FairSpec == Spec /\ WF_vars(Next)

----------------------------------------------------------------------------
(* Vocabulary of the properties *)

\* the run has ended / ended successfully after writing
Done == pc = "done"
Ok == pc = "done" /\ result = "ok"

\* the run is a delete, or a move/copy, that reached parse_range
IsDelete == args.input_file = "a.tex" /\ ~args.list /\ args.delete /\ args.from_pos # <<>>
IsMoveOrCopy ==
    /\ args.input_file = "a.tex" /\ ~args.list /\ ~args.delete
    /\ args.from_pos # <<>> /\ args.to_pos # <<>>

\* the selected source positions, the destination position, the mode
Selected == parse_range(args.from_pos[1]).positions
ToPos == args.to_pos[1]
CopyMode == args.copy /\ ~args.move

\* an output path was given and differs, as a path, from the input path
CrossFile == args.output # <<>> /\ args.output[1] # args.input_file
\* the file the blocks go to
DestFile == IF CrossFile THEN FileOf[args.output[1]] ELSE "A"

\* the block index of a file before the run and now
Frames0(f) == parse_frames(fs0[f])
FramesNow(f) == parse_frames(fs[f])
TextsOf(frames) == [i \in DOMAIN frames |-> frames[i].text]

Range(s) == {s[i] : i \in DOMAIN s}
\* the multiset of the elements of a sequence
BagOf(s) == [x \in Range(s) |-> Cardinality({i \in DOMAIN s : s[i] = x})]

RemoveAt(s, p) == SubSeq(s, 1, p - 1) \o SubSeq(s, p + 1, Len(s))
InsertSeqAt(s, q, xs) == SubSeq(s, 1, q - 1) \o xs \o SubSeq(s, q, Len(s))

\* the number of lines of class k in a text
CountKind(text, k) == Cardinality({i \in DOMAIN text : text[i].k = k})
\* a block whose opening has its matching close (a one-line block always has)
Closed(frame) == CountKind(frame.text, "begin") = CountKind(frame.text, "end")
\* no block of the text is left open at the end of the text
AllClosed(content) ==
    \A i \in DOMAIN parse_frames(content) : Closed(parse_frames(content)[i])

----------------------------------------------------------------------------
(* C1: count conservation of moves *)

\* the blocks parse_frames finds in the affected files together
TotalBlocksNow == Len(FramesNow("A")) + (IF DestFile # "A" THEN Len(FramesNow(DestFile)) ELSE 0)
TotalBlocks0 == Len(Frames0("A")) + (IF DestFile # "A" THEN Len(Frames0(DestFile)) ELSE 0)

\* The claim in full: after every successful move (same-file, or cross-file
\* in move mode), on any documents, the number of blocks in the affected
\* documents together is what it was before, and after a same-file move the
\* multiset of block texts is what it was before.
MoveConservesBlocks ==
    (Ok /\ IsMoveOrCopy /\ ~CopyMode) =>
        /\ TotalBlocksNow = TotalBlocks0
        /\ ~CrossFile =>
              BagOf(TextsOf(FramesNow("A"))) = BagOf(TextsOf(Frames0("A")))

\* C1 (as claimed, for cross-file moves of documents whose blocks are all
\* closed): after a successful cross-file move the number of blocks
\* parse_frames finds in the affected documents together equals the number
\* before the move.
C1_CrossFileMoveConserves ==
    (/\ Ok /\ IsMoveOrCopy /\ ~CopyMode /\ CrossFile
     /\ AllClosed(fs0["A"]) /\ AllClosed(fs0["B"]))
        => TotalBlocksNow = TotalBlocks0

----------------------------------------------------------------------------
(* C2: order after a same-file move of one block *)

\* a finished same-file move (not copy) of a single block
SingleMove == Ok /\ IsMoveOrCopy /\ ~CrossFile /\ ~CopyMode /\ Len(Selected) = 1

\* the block texts of the input document with block p taken out and put back
\* at position q
MovedOrder(p, q) ==
    LET texts == TextsOf(Frames0("A"))
    IN  InsertSeqAt(RemoveAt(texts, p), q, <<texts[p]>>)

\* C2 (as claimed): after a same-file move of the single block p to position
\* q # p the block sequence of the written document is the original one with
\* block p taken out and re-inserted at position q, on every document.
C2_AsClaimed ==
    SingleMove => TextsOf(FramesNow("A")) = MovedOrder(Selected[1], ToPos)

\* C2 (amended): the same, for a document none of whose blocks is
\* unterminated (every block-open line has its matching block-close).
C2_MovedBlockAtDest ==
    (SingleMove /\ AllClosed(fs0["A"]))
        => TextsOf(FramesNow("A")) = MovedOrder(Selected[1], ToPos)

\* the spec's example: four blocks [A,B,C,D], block 1 moved to position 3
C2_Witness ==
    /\ SingleMove /\ AllClosed(fs0["A"])
    /\ Len(Frames0("A")) = 4 /\ Selected = <<1>> /\ ToPos = 3
    /\ TextsOf(FramesNow("A")) =
           LET t == TextsOf(Frames0("A")) IN <<t[2], t[3], t[1], t[4]>>

----------------------------------------------------------------------------
(* C3: cross-file copy *)

\* a finished copy from a.tex into the other file, through the path b.tex
CrossCopy == Ok /\ IsMoveOrCopy /\ CrossFile /\ CopyMode /\ DestFile = "B"

\* the texts of the selected blocks of the input document, in source order
SelectedTexts == [j \in DOMAIN Selected |-> Frames0("A")[Selected[j]].text]

\* X is unchanged and unwritten; Y's blocks are its old ones with the copied
\* blocks inserted, in source order, at position ToPos
CopiedInto ==
    /\ fs["A"] = fs0["A"]
    /\ \A i \in DOMAIN writes : FileOf[writes[i]] # "A"
    /\ TextsOf(FramesNow("B")) = InsertSeqAt(TextsOf(Frames0("B")), ToPos, SelectedTexts)

LastIsComment(content) == IsComment(content[Len(content)])

\* C3 (as claimed): a cross-file copy of the positions S of X to position d of
\* another document Y leaves X unchanged and unwritten and Y with |Y|+|S|
\* blocks, the copied blocks at positions d..d+|S|-1 in source order, Y's own
\* blocks in their old relative order.
C3_AsClaimed == CrossCopy => CopiedInto

\* C3 (amended): the same, when no block of X or Y is unterminated and Y, if
\* it has no block, does not end with a comment line (the copy is appended to
\* a block-less Y, where a comment line just before it joins the first copied
\* block).
C3_CopyInsertsAtDest ==
    (/\ CrossCopy
     /\ AllClosed(fs0["A"]) /\ AllClosed(fs0["B"])
     /\ (Frames0("B") = <<>> => ~LastIsComment(fs0["B"])))
        => CopiedInto

\* the spec's example: block 2 of X (3 blocks) copied to position 1 of Y
\* (2 blocks); Y then has 3 blocks, the copied one first
C3_Witness ==
    /\ CrossCopy /\ AllClosed(fs0["A"]) /\ AllClosed(fs0["B"])
    /\ Len(Frames0("A")) = 3 /\ Len(Frames0("B")) = 2
    /\ Selected = <<2>> /\ ToPos = 1
    /\ Len(FramesNow("A")) = 3 /\ Len(FramesNow("B")) = 3
    /\ FramesNow("B")[1].text = Frames0("A")[2].text

----------------------------------------------------------------------------
(* C4: copy adds the blocks and keeps them at the source *)

\* a copy that ended with its success report
CopyRun == Ok /\ IsMoveOrCopy /\ CopyMode

\* the destination has as many blocks more as were selected and every
\* selected block is still a block of the source
CopyAddsBlocks ==
    /\ Len(FramesNow(DestFile)) = Len(Frames0(DestFile)) + Len(Selected)
    /\ \A j \in DOMAIN Selected :
          SelectedTexts[j] \in Range(TextsOf(FramesNow("A")))

\* The claim in full: after every copy the destination has gained the
\* selected blocks and the source still has them.
EveryCopyAddsBlocks == CopyRun => CopyAddsBlocks

\* C4 (as claimed, for the copies it names expressly): after a copy whose
\* destination document is the source document (no output path given, or an
\* output path equal to the input path) the document has as many blocks more
\* as were selected and the selected blocks are still present.
C4_SameFileCopyAddsBlocks == (CopyRun /\ ~CrossFile) => CopyAddsBlocks

----------------------------------------------------------------------------
(* C5: a same-file move keeps every line outside the selected spans *)

\* a finished same-file move
SameFileMove == Ok /\ IsMoveOrCopy /\ ~CrossFile /\ ~CopyMode

\* line number i (0-based) of the input document lies in a selected span
InSelectedSpan(i) ==
    \E j \in DOMAIN Selected :
        Frames0("A")[Selected[j]].start <= i /\ i < Frames0("A")[Selected[j]].end

\* the lines of the input document outside the selected spans, in order
RECURSIVE OutsideFrom(_)
OutsideFrom(i) ==
    IF i >= Len(fs0["A"]) THEN <<>>
    ELSE (IF InSelectedSpan(i) THEN <<>> ELSE <<fs0["A"][i + 1]>>) \o OutsideFrom(i + 1)
OutsideLines == OutsideFrom(0)

\* the lines of text that are among those of keep, in the order of text
RECURSIVE Restrict(_, _)
Restrict(text, keep) ==
    IF text = <<>> THEN <<>>
    ELSE (IF Head(text) \in Range(keep) THEN <<Head(text)>> ELSE <<>>)
             \o Restrict(Tail(text), keep)

\* C5 (as claimed): after a same-file move every line outside the spans of
\* the selected blocks, also one between two selected blocks of a range, is
\* still in the document, these lines in their old relative order, and the
\* multiset of the document's lines is what it was.
C5_MoveKeepsOtherLines ==
    SameFileMove =>
        /\ Restrict(fs["A"], OutsideLines) = OutsideLines
        /\ BagOf(fs["A"]) = BagOf(fs0["A"])

----------------------------------------------------------------------------
(* C6: where a cross-file move or copy inserts *)

\* the destination of a cross-file move or copy has been written, and not
\* been written over since
DestWritten ==
    /\ IsMoveOrCopy /\ CrossFile /\ writes # <<>>
    /\ \/ pc = "inserted"
       \/ Ok /\ (CopyMode \/ DestFile = "B")

\* text with the lines xs inserted at line offset off (0-based)
InsertLinesAt(text, off, xs) ==
    SubSeq(text, 1, off) \o xs \o SubSeq(text, off + 1, Len(text))

\* the lines of the selected blocks, in source order
SelectedLines == Concat(SelectedTexts)

\* the offset the spec gives: start of the span at dest; end of the last span
\* when dest is one past the last block; whenNoBlocks when there is no block
SpecOffset(whenNoBlocks) ==
    LET dest_frames == Frames0(DestFile)
    IN  IF dest_frames = <<>> THEN whenNoBlocks
        ELSE IF ToPos <= Len(dest_frames) THEN dest_frames[ToPos].start
        ELSE dest_frames[Len(dest_frames)].end

\* C6 (as claimed): the source text is inserted into the destination at the
\* start of the span at position dest, at the end of the last span when dest
\* is one past the last block, and at offset 0 when the destination has no
\* blocks.
C6_AsClaimed ==
    DestWritten =>
        fs[DestFile] = InsertLinesAt(fs0[DestFile], SpecOffset(0), SelectedLines)

\* C6 (amended): ... and at the end of the destination document (offset = its
\* number of lines) when the destination has no blocks.
C6_InsertOffset ==
    DestWritten =>
        fs[DestFile] = InsertLinesAt(fs0[DestFile], SpecOffset(Len(fs0[DestFile])),
                                     SelectedLines)

\* a block appended to a destination that has no blocks
C6_Witness ==
    /\ DestWritten /\ DestFile = "B"
    /\ Frames0("B") = <<>>
    /\ fs["B"] = fs0["B"] \o SelectedLines

----------------------------------------------------------------------------
(* C7: delete removes the selected spans and nothing else *)

\* a finished delete
DeleteRun == Ok /\ IsDelete

\* the positions of 1..n that are not selected, ascending
KeptPositions(n) ==
    SelectSeq([i \in 1..n |-> i], LAMBDA i : \A j \in DOMAIN Selected : Selected[j] # i)

\* the texts of the blocks of the input document that are not selected
KeptTexts ==
    LET kept == KeptPositions(Len(Frames0("A")))
    IN  [j \in DOMAIN kept |-> Frames0("A")[kept[j]].text]

\* C7: after delete_frames with the valid ascending positions S the document
\* is the text of the original lines with the spans of the blocks at S cut
\* out, every other line kept in order, and its block sequence is the
\* original one without the blocks at S.
C7_DeleteCutsSpans ==
    DeleteRun =>
        /\ fs["A"] = Join(OutsideLines)
        /\ TextsOf(FramesNow("A")) = KeptTexts

\* a range of two blocks deleted from a document that keeps a block and a
\* line outside the blocks
C7_Witness ==
    /\ DeleteRun
    /\ Len(Selected) = 2
    /\ Len(FramesNow("A")) = 1 /\ Len(Frames0("A")) = 3
    /\ Len(fs["A"]) > 1
    /\ fs["A"] = OutsideLines

----------------------------------------------------------------------------
(* C8: validation of the source positions *)

\* a finished delete or move/copy run: the runs that validate a --from token
Validated == Done /\ (IsDelete \/ IsMoveOrCopy)

\* the --from token of the run
Token == args.from_pos[1]

\* "abc", "1-x", "x-1": a part that is no number; "5-3": N-M with N > M
Malformed(tok) ==
    \/ \E i \in DOMAIN tok : tok[i] = NotANumber
    \/ Len(tok) = 2 /\ tok[1] > tok[2]

\* the token is N or N-M with N <= M
WellFormed(tok) == Len(tok) <= 2 /\ ~Malformed(tok)

\* the positions a well-formed token asks for
Asked(tok) == tok[1]..tok[Len(tok)]

\* what the validation does with a token on an index of size n >= minSize:
\* malformed -> format error; a position outside 1..n -> out-of-range error;
\* every position inside 1..n -> accepted
ValidationOutcome(minSize) ==
    LET n == Len(Frames0("A"))
    IN  /\ Malformed(Token) => result = "Format"
        /\ (WellFormed(Token) /\ n >= minSize
               /\ \E pos \in Asked(Token) : pos < 1 \/ pos > n)
              => result = "FromRange"
        /\ (WellFormed(Token) /\ \A pos \in Asked(Token) : 1 <= pos /\ pos <= n)
              => result \notin {"Format", "FromRange", "Empty"}

\* C8 (as claimed): on a block index of any size N a source position outside
\* 1..N makes delete and move/copy fail with the out-of-range error, a token
\* N-M with N > M or a non-numeric token fails with the format error, and
\* every position in 1..N is accepted.
C8_AsClaimed == Validated => ValidationOutcome(0)

\* C8 (amended): the same on a block index of size N >= 1; on an empty index
\* (N = 0) every well-formed token fails with the empty-index error ("No
\* frames found"), which is raised before the positions are looked at.
C8_SourceValidation ==
    Validated =>
        /\ ValidationOutcome(1)
        /\ (WellFormed(Token) /\ Frames0("A") = <<>>) => result = "Empty"

\* position N+1 asked of an index of size N = 2 in a move
C8_Witness ==
    /\ Validated /\ IsMoveOrCopy
    /\ Len(Frames0("A")) = 2 /\ Token = <<3>>
    /\ result = "FromRange"

----------------------------------------------------------------------------
(* C9: a run that ends in an error has written nothing *)

\* the error exits of main, delete_frames and move_frames
Errors == {"InputMissing", "FromMissing", "ToMissing", "Format",
           "Empty", "FromRange", "DestMissing", "ToRange"}

\* C9: every run that ends in an error (malformed token, source position out
\* of range, empty block index, missing destination document, destination
\* position out of range, missing argument or input) has called write_text
\* not once, and both documents are what they were before the run.
C9_ErrorsWriteNothing ==
    (result \in Errors) => (writes = <<>> /\ fs = fs0)

\* the last error exit of a cross-file run: the destination position is
\* checked after both documents were read
C9_Witness ==
    /\ Done /\ result = "ToRange" /\ IsMoveOrCopy /\ CrossFile
    /\ writes = <<>> /\ fs = fs0

----------------------------------------------------------------------------
(* C10: comment absorption *)

\* the opening line (0-based) of a block of text content: its first line that
\* is no comment
RECURSIVE OpeningLine(_, _)
OpeningLine(content, i) ==
    IF i + 1 < Len(content) /\ IsComment(content[i + 1])
    THEN OpeningLine(content, i + 1)
    ELSE i

\* every span of the text starts at the first line of the maximal run of
\* comment lines right before the block's opening line
SpansStartAtComments(content) ==
    \A n \in DOMAIN parse_frames(content) :
        LET f == parse_frames(content)[n]
            open == OpeningLine(content, f.start)
        IN  /\ open < f.end
            /\ IsBegin(content[open + 1]) \/ IsFrame(content[open + 1])
            /\ \A i \in f.start..(open - 1) : IsComment(content[i + 1])
            /\ f.start > 0 => ~IsComment(content[f.start])

\* the comment lines of the input document outside the selected spans
LeftBehindComments == SelectSeq(OutsideLines, IsComment)

\* xs is a run of consecutive lines of text
IsRunOf(xs, text) ==
    \E off \in 0..(Len(text) - Len(xs)) : SubSeq(text, off + 1, off + Len(xs)) = xs

\* a finished delete or move (same-file or cross-file)
DeleteOrMove == Ok /\ (IsDelete \/ (IsMoveOrCopy /\ ~CopyMode))

\* C10 (as claimed): the span of every block starts at the first line of the
\* maximal run of comment lines right before its opening line, so after a
\* move these comment lines are with their block (its text, comments first,
\* is a run of lines of the destination) and after a delete they are gone,
\* while every comment line that a blank or other non-comment line separates
\* from the opening line stays in the source document, in its old order.
C10_CommentAbsorption ==
    /\ \A f \in Files : SpansStartAtComments(fs[f])
    /\ DeleteOrMove =>
          /\ Restrict(fs["A"], LeftBehindComments) = LeftBehindComments
          /\ IsMoveOrCopy =>
                \A j \in DOMAIN Selected : IsRunOf(SelectedTexts[j], fs[DestFile])
          /\ IsDelete =>
                \A j \in DOMAIN Selected :
                    \A i \in DOMAIN SelectedTexts[j] :
                        SelectedTexts[j][i] \notin Range(fs["A"])

----------------------------------------------------------------------------
(* C11: the extent of a \begin{frame} span *)

\* the nesting depth after line j of a block whose \begin{frame} is line open
\* (both 0-based): 1 for the opening, +1 for every further \begin{frame} and
\* -1 for every \end{frame} on the lines open+1..j
DepthAfter(content, open, j) ==
    1 + Cardinality({i \in (open + 2)..(j + 1) : IsBegin(content[i])})
      - Cardinality({i \in (open + 2)..(j + 1) : IsEnd(content[i])})

\* the lines after open at which the depth is 0
ClosingLines(content, open) ==
    {j \in (open + 1)..(Len(content) - 1) : DepthAfter(content, open, j) = 0}

\* the exclusive end of the block opened at line open: the line after the
\* first line that brings the depth to 0, or the end of the text
SpanEnd(content, open) ==
    LET closing == ClosingLines(content, open)
    IN  IF closing = {} THEN Len(content)
        ELSE 1 + CHOOSE j \in closing : \A l \in closing : j <= l

\* the spans of the text that a \begin{frame} line opens
BeginSpans(content) ==
    LET frames == parse_frames(content)
    IN  {n \in DOMAIN frames : IsBegin(content[OpeningLine(content, frames[n].start) + 1])}

\* every \begin{frame} span ends right after the \end{frame} that brings the
\* depth to 0 (at the end of the text when there is none), and no span opens
\* strictly inside it
SpanExtent(content) ==
    LET frames == parse_frames(content)
        opening == [n \in DOMAIN frames |-> OpeningLine(content, frames[n].start)]
    IN  \A n \in DOMAIN frames :
            IsBegin(content[opening[n] + 1]) =>
                /\ frames[n].end = SpanEnd(content, opening[n])
                /\ \A m \in DOMAIN frames :
                       m # n => ~(opening[m] \in (opening[n] + 1)..(frames[n].end - 1))

\* the file is one the run started with (every file, before the run) or one
\* the run has written: the texts parse_frames is to be judged on
FreshText(f) == pc = "start" \/ fs[f] # fs0[f]

\* C11: in every document, the ones a run starts with and the ones it
\* writes, the span of a block opened by \begin{frame} ends (exclusively) at
\* the line after the \end{frame} that returns the nesting depth to 0, so a
\* block with nested \begin{frame}/\end{frame} pairs is one span of the outer
\* extent and no span starts inside it; with no such \end{frame} the scan
\* stops at the end of the text and the span ends there.
C11_SpanExtent == \A f \in Files : FreshText(f) => SpanExtent(fs[f])

\* a destination written by a copy of \begin, \begin, \end, \end: the nested
\* pair is inside one span, which covers the four lines
C11_Witness ==
    /\ Ok /\ FreshText("B")
    /\ \E n \in BeginSpans(fs["B"]) :
          LET f == FramesNow("B")[n]
          IN  /\ f.end - f.start = 4
              /\ IsBegin(f.text[1]) /\ IsBegin(f.text[2])
              /\ IsEnd(f.text[3]) /\ IsEnd(f.text[4])

----------------------------------------------------------------------------
(* C12: a single block moved to its own position *)

\* a finished same-file move of the single block p of the document to
\* position p
MoveToOwnPosition ==
    /\ Done /\ IsMoveOrCopy /\ ~CrossFile /\ ~CopyMode
    /\ parse_range(Token).ok
    /\ Len(Selected) = 1 /\ Selected[1] = ToPos
    /\ Selected[1] \in 1..Len(Frames0("A"))

\* C12: a same-file move of a single block whose destination position is the
\* position it has ends with success ("Nothing to do"), without a call of
\* write_text, and with the bytes of every document unchanged.
C12_NoOp ==
    MoveToOwnPosition =>
        /\ result = "noop" /\ result \notin Errors
        /\ writes = <<>>
        /\ fs = fs0

\* block 2 of three moved to position 2, with the input path given as -o too
C12_Witness ==
    /\ MoveToOwnPosition
    /\ Len(Frames0("A")) = 3 /\ Selected = <<2>>
    /\ args.output = <<"a.tex">>
    /\ result = "noop" /\ writes = <<>> /\ fs = fs0

----------------------------------------------------------------------------
(* C13: the spans of a text are ordered and disjoint *)

\* the text with every \againframe line made a line of no class
WithoutReferences(content) ==
    [i \in DOMAIN content |->
        IF content[i].k = "again" THEN [k |-> "other", id |-> content[i].id]
        ELSE content[i]]

\* 0 <= start_i < end_i <= start_{i+1}, end_i <= number of lines; no span
\* starts or opens at an \againframe line, and the reference lines do not
\* change the number of blocks
SpansOrdered(content) ==
    LET frames == parse_frames(content)
    IN  /\ \A n \in DOMAIN frames :
              /\ 0 <= frames[n].start
              /\ frames[n].start < frames[n].end
              /\ frames[n].end <= Len(Split(content))
              /\ content[frames[n].start + 1].k # "again"
              /\ content[OpeningLine(content, frames[n].start) + 1].k # "again"
              /\ frames[n].text = SubSeq(content, frames[n].start + 1, frames[n].end)
        /\ \A n \in 1..(Len(frames) - 1) : frames[n].end <= frames[n + 1].start
        /\ Len(frames) = Len(parse_frames(WithoutReferences(content)))

\* C13: for every document, the ones a run starts with and the ones it
\* writes, the spans parse_frames returns are in document order and do not
\* overlap (0 <= start_i < end_i <= start_{i+1}, end_i <= number of lines),
\* the absorbed comment lines included, and no span starts at an \againframe
\* line: such a line is never counted as a block.
C13_SpansOrdered == \A f \in Files : FreshText(f) => SpansOrdered(fs[f])

\* a written document with a reference line, and two spans of which the
\* second starts at an absorbed comment right after the end of the first
C13_Witness ==
    /\ Ok /\ FreshText("A")
    /\ \E i \in DOMAIN fs["A"] : fs["A"][i].k = "again"
    /\ Len(FramesNow("A")) >= 2
    /\ FramesNow("A")[1].end = FramesNow("A")[2].start
    /\ IsComment(fs["A"][FramesNow("A")[2].start + 1])

----------------------------------------------------------------------------
(* C14: where a moved run is after a same-file move *)

\* the opening lines (\begin{frame} or \frame{ lines) of the blocks of a text,
\* in the order of the block index
Openings(content) ==
    [n \in DOMAIN parse_frames(content) |->
        content[OpeningLine(content, parse_frames(content)[n].start) + 1]]

\* the blocks of the selected run, by their opening lines
SelectedOpenings == [j \in DOMAIN Selected |-> Openings(fs0["A"])[Selected[j]]]

\* in the block index of the written document the run is at positions
\* q..q+k-1, first moved block first
RunAt(q) ==
    /\ q + Len(Selected) - 1 <= Len(FramesNow("A"))
    /\ SubSeq(Openings(fs["A"]), q, q + Len(Selected) - 1) = SelectedOpenings

\* C14: after a successful same-file move of the run of positions p..p+k-1
\* to destination q (1 <= q <= N) of a document whose blocks are all closed,
\* the block index recomputed from the written document has the first moved
\* block at position q and the run at positions q..q+k-1, as the run reports
\* ("Moved frame(s) p-(p+k-1) to position q").
C14_RunAtReportedPosition ==
    (SameFileMove /\ AllClosed(fs0["A"])) => RunAt(ToPos)

----------------------------------------------------------------------------
(* C15: the order of the two writes of a cross-file move *)

\* the run is a cross-file move (not copy) between two distinct documents
\* that passed every check: it has written at least the destination
MoveBetweenDocuments ==
    /\ pc \in {"inserted", "done"} /\ IsMoveOrCopy /\ ~CopyMode
    /\ result \in {"none", "ok"}
    /\ CrossFile /\ Exists(args.output[1]) /\ FileOf[args.output[1]] = "B"

\* every selected block is, line for line, in one of the two documents
BlocksSomewhere ==
    \A j \in DOMAIN Selected :
        IsRunOf(SelectedTexts[j], fs["A"]) \/ IsRunOf(SelectedTexts[j], fs["B"])

\* C15: in a cross-file move between two distinct documents the destination
\* is written, with the blocks inserted, strictly before the source is
\* written, with the blocks removed, and each is written exactly once: the
\* write log is <<destination>> and then <<destination, source>>.  Between
\* the two writes (where an interruption would leave the files) the source
\* still is what it was, and in every state of the run each moved block is in
\* at least one of the two documents.
C15_DestinationBeforeSource ==
    /\ pc = "start" => writes = <<>>
    /\ MoveBetweenDocuments =>
          /\ BlocksSomewhere
          /\ \A j \in DOMAIN Selected : IsRunOf(SelectedTexts[j], fs["B"])
          /\ pc = "inserted" =>
                /\ writes = <<args.output[1]>>
                /\ fs["A"] = fs0["A"] /\ fs["B"] # fs0["B"]
          /\ pc = "done" =>
                /\ writes = <<args.output[1], args.input_file>>
                /\ \A j \in DOMAIN Selected :
                       \A i \in DOMAIN SelectedTexts[j] :
                           SelectedTexts[j][i] \notin Range(fs["A"])

\* between the two writes of a move of blocks 1-2 to the fixed destination
C15_Witness ==
    /\ MoveBetweenDocuments /\ pc = "inserted"
    /\ Selected = <<1, 2>> /\ fs0["B"] = FixedDest
    /\ writes = <<"b.tex">> /\ fs["A"] = fs0["A"]
    /\ \A j \in DOMAIN Selected : IsRunOf(SelectedTexts[j], fs["B"])

----------------------------------------------------------------------------
(* C16: an output path that is unequal to the input path *)

\* a run of move_frames that passed every check, with an output path that is
\* not equal to the input path
UnequalOutputPath ==
    /\ pc \in {"inserted", "done"} /\ result \in {"none", "ok"}
    /\ IsMoveOrCopy /\ CrossFile

\* the run took the cross-file branch: its first write goes to the output path
TookCrossFileBranch == writes # <<>> /\ writes[1] = args.output[1]

\* C16: with an output path that is not equal to the input path move_frames
\* takes the cross-file branch, and when a cross-file move has completed each
\* moved block is, line for line, in the file the output path names, also
\* when the two unequal paths lead to the same file.
C16_MovedBlocksAtOutput ==
    UnequalOutputPath =>
        /\ TookCrossFileBranch
        /\ (Ok /\ ~CopyMode) =>
              \A j \in DOMAIN Selected :
                  IsRunOf(SelectedTexts[j], fs[FileOf[args.output[1]]])

====
